---------------------------- MODULE Spec2Model ----------------------------
(***************************************************************************)
(* A model of src/option_file.py: the dashboard script that fetches SPY    *)
(* expirations, SPY/VIX bars and option chains, selects the "significant"  *)
(* strikes (quantile filter, group by strike, top 5) and draws the charts. *)
(*                                                                         *)
(* A table (pandas DataFrame) is a sequence of rows.  A missing value      *)
(* (NaN / None) is Null.  Quantiles are exact rationals, kept multiplied   *)
(* by QuantileDen; the rounding of the floating-point interpolation (a few *)
(* units in the last place) is not modelled.                               *)
(***************************************************************************)
EXTENDS Integers, Sequences, FiniteSets

VARIABLES pc, exception, expiration_dates, selected_expirations,
          spy_df, vix_df, latest_spy_price, ax2,
          all_options, exp_idx, options_df,
          oi_quantile, volume_quantile, significant_options, top_strikes

vars == <<pc, exception, expiration_dates, selected_expirations,
          spy_df, vix_df, latest_spy_price, ax2,
          all_options, exp_idx, options_df,
          oi_quantile, volume_quantile, significant_options, top_strikes>>

-----------------------------------------------------------------------------
(* Program constants *)

\* .quantile(0.80) = QuantileNum / QuantileDen
QuantileNum == 4
QuantileDen == 5
\* .head(5)
TopN == 5
\* NaN / None: a value pandas treats as missing (all real values are >= 0)
Null == -1
\* a name the script has not bound yet
Unbound == -2

(* Bounds of the model *)

\* rows of one expiration's chain in the whole-script specification
MaxPayloadRows == 1
\* rows of an exhaustively enumerated chain in the selection specification
MaxRows == 2
\* active contracts (one per strike) of a wide chain
MaxHot == 6
\* illiquid contracts appended to a wide chain
MaxQuiet == 6

-----------------------------------------------------------------------------
(* Input domains *)

ExpirationUniverse == {"2025-03-07", "2025-03-14"}
Strikes == {100, 105}
OIValues == {10, 100}
VolumeValues == {5, 50}

\* a row of options.option as the DataFrame constructor sees it; a key that is
\* absent or null becomes a missing value
RowDomain ==
  [strike : Strikes \cup {Null},
   open_interest : OIValues \cup {Null},
   volume : VolumeValues \cup {Null}]

SeqsUpTo(S, n) == UNION {[1..k -> S] : k \in 0..n}

\* lists of distinct dates, in the order given
DateLists(S) ==
  {l \in SeqsUpTo(S, Cardinality(S)) : \A i, j \in 1..Len(l) : i # j => l[i] # l[j]}

-----------------------------------------------------------------------------
(* pandas helpers *)

IsNull(x) == x = Null

\* df[column] as a sequence of values
OpenInterestCol(df) == [i \in 1..Len(df) |-> df[i].open_interest]
VolumeCol(df) == [i \in 1..Len(df) |-> df[i].volume]
StrikeCol(df) == [i \in 1..Len(df) |-> df[i].strike]

AllNull(col) == \A i \in 1..Len(col) : IsNull(col[i])

DropNull(col) == SelectSeq(col, LAMBDA x : ~IsNull(x))

RECURSIVE InsertSorted(_, _)
InsertSorted(x, s) ==
  IF s = <<>> THEN <<x>>
  ELSE IF x <= Head(s) THEN <<x>> \o s
  ELSE <<Head(s)>> \o InsertSorted(x, Tail(s))

RECURSIVE SortAsc(_)
SortAsc(s) == IF s = <<>> THEN <<>> ELSE InsertSorted(Head(s), SortAsc(Tail(s)))

\* Quantile with a defect: interpolation "lower" (no interpolation)
QuantileLower(col) ==
  LET v == SortAsc(DropNull(col))
      n == Len(v)
  IN  IF n = 0 THEN Null
      ELSE QuantileDen * v[((QuantileNum * (n - 1)) \div QuantileDen) + 1]

\* Series.quantile(0.80), times QuantileDen: missing values are skipped, the
\* rest sorted, and the value at virtual index h = 0.80 * (n - 1) interpolated
\* linearly between its two neighbours.  Null when no value is left.
Quantile(col) ==
  LET v == SortAsc(DropNull(col))
      n == Len(v)
      k == QuantileNum * (n - 1)
      lo == k \div QuantileDen
      rem == k % QuantileDen
  IN  IF n = 0 THEN Null
      ELSE IF rem = 0 THEN QuantileDen * v[lo + 1]
      ELSE QuantileDen * v[lo + 1] + rem * (v[lo + 2] - v[lo + 1])

\* Exceeds with a defect: >= in place of >
ExceedsOrEqual(x, q) == ~IsNull(x) /\ ~IsNull(q) /\ x * QuantileDen >= q

\* column > quantile, element-wise: a comparison with a missing value on
\* either side is False.  q is a quantile times QuantileDen.
Exceeds(x, q) == ~IsNull(x) /\ ~IsNull(q) /\ x * QuantileDen > q

\* SignificantRows with a defect: & in place of |
SignificantRowsBoth(df, qo, qv) ==
  SelectSeq(df, LAMBDA r : Exceeds(r.open_interest, qo) /\ Exceeds(r.volume, qv))

\* options_df[(open_interest > qo) | (volume > qv)]
SignificantRows(df, qo, qv) ==
  SelectSeq(df, LAMBDA r : Exceeds(r.open_interest, qo) \/ Exceeds(r.volume, qv))

\* Series.sum(): missing values are skipped
RECURSIVE NanSum(_)
NanSum(col) ==
  IF col = <<>> THEN 0
  ELSE (IF IsNull(Head(col)) THEN 0 ELSE Head(col)) + NanSum(Tail(col))

RowsOfStrike(df, s) == SelectSeq(df, LAMBDA r : r.strike = s)

\* the group keys of groupby("strike"): missing keys are dropped
GroupKeys(df) == {df[i].strike : i \in 1..Len(df)} \ {Null}

\* groupby("strike")["open_interest"].sum().reset_index(): one row per key,
\* keys ascending
RECURSIVE GroupRows(_, _)
GroupRows(df, keys) ==
  IF keys = {} THEN <<>>
  ELSE LET s == CHOOSE x \in keys : \A y \in keys : x <= y
       IN  <<[strike |-> s,
              open_interest |-> NanSum(OpenInterestCol(RowsOfStrike(df, s)))]>>
           \o GroupRows(df, keys \ {s})

\* GroupSum with a defect: the sums taken over the unfiltered table
GroupSumUnfiltered(df) == GroupRows(options_df, GroupKeys(df))

GroupSum(df) == GroupRows(df, GroupKeys(df))

\* the first n rows of the orders sort_values("open_interest", ascending=False)
\* may produce: the default kind is quicksort, which is not stable, so rows
\* of equal open_interest come out in any order
RECURSIVE SortedHeads(_, _)
SortedHeads(rows, n) ==
  IF n = 0 \/ rows = {} THEN {<<>>}
  ELSE UNION {{<<g>> \o t : t \in SortedHeads(rows \ {g}, n - 1)} :
              g \in {x \in rows : \A y \in rows : y.open_interest <= x.open_interest}}

RowSet(df) == {df[i] : i \in 1..Len(df)}

\* SortHead with a defect: no truncation
SortAll(df) == SortedHeads(RowSet(df), Len(df))

\* sort_values("open_interest", ascending=False).head(5)
SortHead(df) == SortedHeads(RowSet(df), TopN)

-----------------------------------------------------------------------------
(* The script, statement by statement *)

\* an exception nothing catches ends the run at the statement that raised it
Raise(e) ==
  /\ exception' = e
  /\ UNCHANGED pc

\* the script is about to run the statement named at
At(at) ==
  /\ pc = at
  /\ exception = "none"

\* line 44: fetch_expiration_dates()
FetchExpirationDates ==
  /\ At("fetch_expiration_dates")
  /\ \/ \* status 200: data.get("expirations", {}).get("date", [])
        expiration_dates' \in DateLists(ExpirationUniverse)
     \/ \* any other status: st.error, return []
        expiration_dates' = <<>>
  /\ pc' = "multiselect"
  /\ UNCHANGED <<exception, selected_expirations, spy_df, vix_df, latest_spy_price,
                 ax2, all_options, exp_idx, options_df, oi_quantile,
                 volume_quantile, significant_options, top_strikes>>

\* line 47: st.sidebar.multiselect(..., default=[expiration_dates[0]])
Multiselect ==
  /\ At("multiselect")
  /\ \/ /\ expiration_dates = <<>>
        /\ Raise("IndexError")
        /\ UNCHANGED selected_expirations
     \/ /\ expiration_dates # <<>>
        /\ selected_expirations' \in
             DateLists({expiration_dates[i] : i \in 1..Len(expiration_dates)})
        /\ pc' = "fetch_spy"
        /\ UNCHANGED exception
  /\ UNCHANGED <<expiration_dates, spy_df, vix_df, latest_spy_price, ax2,
                 all_options, exp_idx, options_df, oi_quantile, volume_quantile,
                 significant_options, top_strikes>>

\* the close prices of the bars fetch_price_data may return; <<>> is the empty
\* DataFrame (no bars, or a status other than 200)
BarLists == {<<>>, <<560>>, <<560, 562>>}

\* line 72: spy_df = fetch_price_data(ALPACA_URL, ...)
FetchSpy ==
  /\ At("fetch_spy")
  /\ spy_df' \in BarLists
  /\ pc' = "fetch_vix"
  /\ UNCHANGED <<exception, expiration_dates, selected_expirations, vix_df,
                 latest_spy_price, ax2, all_options, exp_idx, options_df,
                 oi_quantile, volume_quantile, significant_options, top_strikes>>

\* line 73: vix_df = fetch_price_data(ALPACA_VIX_URL, ...)
FetchVix ==
  /\ At("fetch_vix")
  /\ vix_df' \in BarLists
  /\ pc' = "process_spy"
  /\ UNCHANGED <<exception, expiration_dates, selected_expirations, spy_df,
                 latest_spy_price, ax2, all_options, exp_idx, options_df,
                 oi_quantile, volume_quantile, significant_options, top_strikes>>

\* lines 76-82: latest_spy_price is bound only when spy_df is not empty
ProcessSpy ==
  /\ At("process_spy")
  /\ latest_spy_price' = IF spy_df # <<>> THEN spy_df[Len(spy_df)] ELSE latest_spy_price
  /\ pc' = "process_vix"
  /\ UNCHANGED <<exception, expiration_dates, selected_expirations, spy_df, vix_df,
                 ax2, all_options, exp_idx, options_df, oi_quantile,
                 volume_quantile, significant_options, top_strikes>>

\* lines 84-89: only messages
ProcessVix ==
  /\ At("process_vix")
  /\ pc' = "fetch_options_data"
  /\ UNCHANGED <<exception, expiration_dates, selected_expirations, spy_df, vix_df,
                 latest_spy_price, ax2, all_options, exp_idx, options_df,
                 oi_quantile, volume_quantile, significant_options, top_strikes>>

\* df["expiration"] = exp_date
Tagged(rows, exp_date) ==
  [i \in 1..Len(rows) |->
     [strike |-> rows[i].strike, open_interest |-> rows[i].open_interest,
      volume |-> rows[i].volume, expiration |-> exp_date]]

\* pd.concat(all_options)
RECURSIVE Concat(_)
Concat(dfs) == IF dfs = <<>> THEN <<>> ELSE Head(dfs) \o Concat(Tail(dfs))

\* lines 95-106: one iteration of the loop of fetch_options_data
FetchOptionsIter ==
  /\ At("fetch_options_data")
  /\ exp_idx <= Len(selected_expirations)
  /\ \/ \* response.status_code != 200
        /\ UNCHANGED <<all_options, pc, exception>>
        /\ exp_idx' = exp_idx + 1
     \/ \* 200, no "options" key in the body
        /\ UNCHANGED <<all_options, pc, exception>>
        /\ exp_idx' = exp_idx + 1
     \/ \* 200, {"options": null}: "option" in None
        /\ Raise("TypeError")
        /\ UNCHANGED <<all_options, exp_idx>>
     \/ \* 200, "options" is an object without "option"
        /\ UNCHANGED <<all_options, pc, exception>>
        /\ exp_idx' = exp_idx + 1
     \/ \* 200, options.option is a list of rows
        /\ \E rows \in SeqsUpTo(RowDomain, MaxPayloadRows) :
             all_options' =
               Append(all_options, Tagged(rows, selected_expirations[exp_idx]))
        /\ exp_idx' = exp_idx + 1
        /\ UNCHANGED <<pc, exception>>
  /\ UNCHANGED <<expiration_dates, selected_expirations, spy_df, vix_df,
                 latest_spy_price, ax2, options_df, oi_quantile, volume_quantile,
                 significant_options, top_strikes>>

\* lines 108, 110: options_df = pd.concat(all_options) if all_options else
\* pd.DataFrame(); the function's locals end with the call
FetchOptionsReturn ==
  /\ At("fetch_options_data")
  /\ exp_idx > Len(selected_expirations)
  /\ options_df' = Concat(all_options)
  /\ all_options' = <<>>
  /\ exp_idx' = 1
  /\ pc' = "report_options"
  /\ UNCHANGED <<exception, expiration_dates, selected_expirations, spy_df, vix_df,
                 latest_spy_price, ax2, oi_quantile, volume_quantile,
                 significant_options, top_strikes>>

\* lines 112-115: only messages
ReportOptions ==
  /\ At("report_options")
  /\ pc' = "filter"
  /\ UNCHANGED <<exception, expiration_dates, selected_expirations, spy_df, vix_df,
                 latest_spy_price, ax2, all_options, exp_idx, options_df,
                 oi_quantile, volume_quantile, significant_options, top_strikes>>

\* lines 118-121: the significance filter.  A table without rows has no
\* columns, so options_df["open_interest"] raises.  A column whose every value
\* is missing is either absent (every row lacked the key: KeyError), of
\* object dtype (every row held null: TypeError) or all-NaN (a mix of the
\* two: the quantile is NaN and no comparison succeeds).
Filter ==
  /\ At("filter")
  /\ \/ /\ options_df = <<>>
        /\ Raise("KeyError")
        /\ UNCHANGED <<oi_quantile, volume_quantile, significant_options>>
     \/ /\ options_df # <<>>
        /\ AllNull(OpenInterestCol(options_df)) \/ AllNull(VolumeCol(options_df))
        /\ \/ Raise("KeyError")
           \/ Raise("TypeError")
        /\ UNCHANGED <<oi_quantile, volume_quantile, significant_options>>
     \/ /\ options_df # <<>>
        /\ oi_quantile' = Quantile(OpenInterestCol(options_df))
        /\ volume_quantile' = Quantile(VolumeCol(options_df))
        /\ significant_options' =
             SignificantRows(options_df, oi_quantile', volume_quantile')
        /\ pc' = "aggregate"
        /\ UNCHANGED exception
  /\ UNCHANGED <<expiration_dates, selected_expirations, spy_df, vix_df,
                 latest_spy_price, ax2, all_options, exp_idx, options_df,
                 top_strikes>>

\* line 122: groupby("strike")["open_interest"].sum().reset_index().  When
\* every strike of the table is missing the column may be absent (KeyError).
Aggregate ==
  /\ At("aggregate")
  /\ \/ /\ AllNull(StrikeCol(options_df))
        /\ Raise("KeyError")
        /\ UNCHANGED significant_options
     \/ /\ significant_options' = GroupSum(significant_options)
        /\ pc' = "rank"
        /\ UNCHANGED exception
  /\ UNCHANGED <<expiration_dates, selected_expirations, spy_df, vix_df,
                 latest_spy_price, ax2, all_options, exp_idx, options_df,
                 oi_quantile, volume_quantile, top_strikes>>

\* lines 123-124: sort_values(...).head(5); top_strikes = [...].tolist()
Rank ==
  /\ At("rank")
  /\ significant_options' \in SortHead(significant_options)
  /\ top_strikes' = StrikeCol(significant_options')
  /\ pc' = "chart_spy_vix"
  /\ UNCHANGED <<exception, expiration_dates, selected_expirations, spy_df, vix_df,
                 latest_spy_price, ax2, all_options, exp_idx, options_df,
                 oi_quantile, volume_quantile>>

\* lines 127-144: spy_df["c"] needs the column (line 130); ax2 is bound only
\* when vix_df is not empty, and read at line 143 either way
ChartSpyVix ==
  /\ At("chart_spy_vix")
  /\ \/ /\ spy_df = <<>>
        /\ Raise("KeyError")
        /\ UNCHANGED ax2
     \/ /\ spy_df # <<>>
        /\ vix_df = <<>>
        /\ Raise("NameError")
        /\ UNCHANGED ax2
     \/ /\ spy_df # <<>>
        /\ vix_df # <<>>
        /\ ax2' = "twinx"
        /\ pc' = "chart_strikes"
        /\ UNCHANGED exception
  /\ UNCHANGED <<expiration_dates, selected_expirations, spy_df, vix_df,
                 latest_spy_price, all_options, exp_idx, options_df, oi_quantile,
                 volume_quantile, significant_options, top_strikes>>

\* lines 147-159: spy_df["c"] again, one line per strike of top_strikes
ChartStrikes ==
  /\ At("chart_strikes")
  /\ IF spy_df = <<>>
     THEN Raise("KeyError")
     ELSE pc' = "pareto_chart" /\ UNCHANGED exception
  /\ UNCHANGED <<expiration_dates, selected_expirations, spy_df, vix_df,
                 latest_spy_price, ax2, all_options, exp_idx, options_df,
                 oi_quantile, volume_quantile, significant_options, top_strikes>>

\* lines 162-169: reads the strike and open_interest columns of
\* significant_options, which the groupby has made
ParetoChart ==
  /\ At("pareto_chart")
  /\ pc' = "trade_plan"
  /\ UNCHANGED <<exception, expiration_dates, selected_expirations, spy_df, vix_df,
                 latest_spy_price, ax2, all_options, exp_idx, options_df,
                 oi_quantile, volume_quantile, significant_options, top_strikes>>

\* lines 172-183: the button may be pressed or not; the read of
\* latest_spy_price and the OpenAI call are inside try/except Exception
TradePlan ==
  /\ At("trade_plan")
  /\ pc' = "done"
  /\ UNCHANGED <<exception, expiration_dates, selected_expirations, spy_df, vix_df,
                 latest_spy_price, ax2, all_options, exp_idx, options_df,
                 oi_quantile, volume_quantile, significant_options, top_strikes>>

\* the module is loaded: nothing fetched, no name of the script bound
Init ==
  /\ pc = "fetch_expiration_dates"
  /\ exception = "none"
  /\ expiration_dates = <<>>
  /\ selected_expirations = <<>>
  /\ spy_df = <<>>
  /\ vix_df = <<>>
  /\ latest_spy_price = Unbound
  /\ ax2 = "unbound"
  /\ all_options = <<>>
  /\ exp_idx = 1
  /\ options_df = <<>>
  /\ oi_quantile = Null
  /\ volume_quantile = Null
  /\ significant_options = <<>>
  /\ top_strikes = <<>>

Next ==
  \/ FetchExpirationDates
  \/ Multiselect
  \/ FetchSpy
  \/ FetchVix
  \/ ProcessSpy
  \/ ProcessVix
  \/ FetchOptionsIter
  \/ FetchOptionsReturn
  \/ ReportOptions
  \/ Filter
  \/ Aggregate
  \/ Rank
  \/ ChartSpyVix
  \/ ChartStrikes
  \/ ParetoChart
  \/ TradePlan

Spec == Init /\ [][Next]_vars

-----------------------------------------------------------------------------
(* The selection alone (lines 118-124), on a wider family of tables *)

SelectExpiration == "2025-03-07"

\* every table of at most MaxRows rows
SmallChains ==
  {Tagged(rows, SelectExpiration) : rows \in SeqsUpTo(RowDomain, MaxRows)}

\* an active contract has a high open interest or a high volume; an illiquid
\* one has neither
HotProfiles ==
  {[open_interest |-> 100, volume |-> 5], [open_interest |-> 200, volume |-> 5],
   [open_interest |-> 10, volume |-> 50]}
QuietProfile == [open_interest |-> 10, volume |-> 5]
StrikeAt(i) == 95 + 5 * i

\* h active contracts at strikes StrikeAt(1..h), then q illiquid contracts at
\* strikes StrikeAt(1..q)
WideChain(f, q) ==
  [i \in 1..Len(f) |->
     [strike |-> StrikeAt(i), open_interest |-> f[i].open_interest,
      volume |-> f[i].volume, expiration |-> SelectExpiration]]
  \o
  [j \in 1..q |->
     [strike |-> StrikeAt(j), open_interest |-> QuietProfile.open_interest,
      volume |-> QuietProfile.volume, expiration |-> SelectExpiration]]

WideChains ==
  {WideChain(f, q) : f \in SeqsUpTo(HotProfiles, MaxHot), q \in 0..MaxQuiet}

InitSelect ==
  /\ pc = "filter"
  /\ exception = "none"
  /\ expiration_dates = <<SelectExpiration>>
  /\ selected_expirations = <<SelectExpiration>>
  /\ spy_df = <<560>>
  /\ vix_df = <<560>>
  /\ latest_spy_price = 560
  /\ ax2 = "unbound"
  /\ all_options = <<>>
  /\ exp_idx = 1
  /\ options_df \in SmallChains \cup WideChains
  /\ oi_quantile = Null
  /\ volume_quantile = Null
  /\ significant_options = <<>>
  /\ top_strikes = <<>>

NextSelect ==
  \/ Filter
  \/ Aggregate
  \/ Rank

SpecSelect == InitSelect /\ [][NextSelect]_vars

-----------------------------------------------------------------------------
(* Properties.  They are stated over the tables the script holds, with      *)
(* definitions of their own: a count-based order statistic in place of the  *)
(* sort, and a per-row test in place of the boolean mask.                   *)

\* the filter has run without raising; the grouping or the sort is next
Filtered == pc \in {"aggregate", "rank"}
\* the whole selection has run: significant_options and top_strikes are final
Selected ==
  pc \in {"chart_spy_vix", "chart_strikes", "pareto_chart", "trade_plan", "done"}

Min(a, b) == IF a <= b THEN a ELSE b

Present(col) == {i \in 1..Len(col) : col[i] # Null}

\* the k-th smallest (k from 0) of the values present in col: the value with
\* at most k values below it and more than k values not above it
KthSmallest(col, k) ==
  CHOOSE x \in {col[i] : i \in Present(col)} :
    /\ Cardinality({i \in Present(col) : col[i] < x}) <= k
    /\ Cardinality({i \in Present(col) : col[i] <= x}) > k

\* QuantileDen * (v[lo] + (h - lo) * (v[lo+1] - v[lo])), h = 0.80 * (n - 1),
\* lo = floor(h), over the n values present in col
Interpolated(col) ==
  LET n == Cardinality(Present(col))
      lo == (QuantileNum * (n - 1)) \div QuantileDen
      hi == Min(lo + 1, n - 1)
  IN  QuantileDen * KthSmallest(col, lo)
      + (QuantileNum * (n - 1) - QuantileDen * lo)
        * (KthSmallest(col, hi) - KthSmallest(col, lo))

\* value is strictly greater than the quantile q5 / QuantileDen
StrictlyAbove(value, q5) == value # Null /\ q5 # Null /\ QuantileDen * value > q5

\* row r clears the significance test against the thresholds of the run
Retained(r) ==
  \/ StrictlyAbove(r.open_interest, oi_quantile)
  \/ StrictlyAbove(r.volume, volume_quantile)

RetainedRows == {i \in 1..Len(options_df) : Retained(options_df[i])}

\* the distinct strikes among the rows that clear the significance test
GroupCount ==
  Cardinality({options_df[i].strike : i \in RetainedRows} \ {Null})

\* the open interest of the retained rows at strike s, summed
RECURSIVE RetainedSum(_, _)
RetainedSum(s, n) ==
  IF n = 0 THEN 0
  ELSE RetainedSum(s, n - 1)
       + (IF /\ options_df[n].strike = s
             /\ Retained(options_df[n])
             /\ options_df[n].open_interest # Null
          THEN options_df[n].open_interest ELSE 0)

HasMissingField(r) ==
  r.strike = Null \/ r.open_interest = Null \/ r.volume = Null

\* no row of the table lacks a field
Complete == \A i \in 1..Len(options_df) : ~HasMissingField(options_df[i])

(* C1: the selection returns exactly min(topN, groupCount) entries, topN = 5 *)
(* and groupCount the number of distinct strikes among the rows that passed *)
(* the significance filter; never more than topN.                           *)
C1_ResultLength ==
  Selected =>
    /\ Len(significant_options) = Min(TopN, GroupCount)
    /\ Len(top_strikes) = Len(significant_options)
    /\ Len(top_strikes) <= TopN

\* more strikes pass than fit: the result is cut to topN
C1_Witness ==
  /\ Selected
  /\ GroupCount > TopN
  /\ Len(top_strikes) = TopN

(* C2: a row is retained by the filter iff its open interest is strictly    *)
(* greater than the open-interest quantile or its volume strictly greater   *)
(* than the volume quantile; a row exactly at the open-interest quantile    *)
(* whose volume does not exceed the volume quantile is excluded.            *)
C2_StrictFilter ==
  pc = "aggregate" =>
    /\ \A r \in RowSet(options_df) : (r \in RowSet(significant_options)) <=> Retained(r)
    /\ RowSet(significant_options) \subseteq RowSet(options_df)
    /\ \A r \in RowSet(options_df) :
         (/\ r.open_interest # Null
          /\ QuantileDen * r.open_interest = oi_quantile
          /\ ~StrictlyAbove(r.volume, volume_quantile))
         => r \notin RowSet(significant_options)

\* a row sits exactly on the open-interest quantile and is left out, while
\* another row is kept
C2_Witness ==
  /\ pc = "aggregate"
  /\ Complete
  /\ \E r \in RowSet(options_df) :
       /\ r.open_interest # Null
       /\ QuantileDen * r.open_interest = oi_quantile
       /\ ~StrictlyAbove(r.volume, volume_quantile)
       /\ r \notin RowSet(significant_options)
  /\ significant_options # <<>>

(* C3: in every result the ranks run 1..k without a gap (the positions of   *)
(* the sequence), the aggregated metric is non-increasing from one rank to  *)
(* the next, and of two strikes with the same aggregated metric the lower   *)
(* strike is ranked first.                                                  *)
C3_RankOrder ==
  Selected =>
    \A i \in 1..(Len(significant_options) - 1) :
      /\ significant_options[i].open_interest >= significant_options[i + 1].open_interest
      /\ significant_options[i].open_interest = significant_options[i + 1].open_interest
           => significant_options[i].strike < significant_options[i + 1].strike

(* C4: every strike of the result appears once, is the strike of a row that *)
(* passed the filter, and its aggregated metric is the sum of open_interest *)
(* over exactly the rows of that strike that passed the filter.             *)
C4_GroupSums ==
  Selected =>
    /\ \A i, j \in 1..Len(significant_options) :
         i # j => significant_options[i].strike # significant_options[j].strike
    /\ \A i \in 1..Len(significant_options) :
         /\ \E n \in RetainedRows : options_df[n].strike = significant_options[i].strike
         /\ significant_options[i].open_interest
              = RetainedSum(significant_options[i].strike, Len(options_df))
         /\ top_strikes[i] = significant_options[i].strike

\* a strike of the result has a row that passed and a row, with open
\* interest, that did not
C4_Witness ==
  /\ Selected
  /\ Complete
  /\ \E i \in 1..Len(significant_options) :
       \E n \in 1..Len(options_df) :
         /\ options_df[n].strike = significant_options[i].strike
         /\ n \notin RetainedRows
         /\ options_df[n].open_interest # Null
         /\ options_df[n].open_interest > 0

(* C5: when the set of option records is empty the selection yields an      *)
(* empty sequence of strikes and does not fail with an error.               *)
C5_EmptyIsNotAnError ==
  (options_df = <<>> /\ pc \in {"filter", "aggregate", "rank"}) => exception = "none"

(* C6, as claimed: with a population of exactly one record the quantile     *)
(* filter is skipped and the record's strike is in the result.              *)
C6_SingleRecordPasses ==
  (Selected /\ Len(options_df) = 1 /\ Complete)
    => top_strikes = <<options_df[1].strike>>

(* C6, amended: with a population of exactly one record the filter is not   *)
(* skipped: each quantile is the record's own value, the strict comparison  *)
(* excludes the record, and the selection yields no strike.                 *)
C6_SingleRecordExcluded ==
  Len(options_df) = 1 =>
    /\ top_strikes = <<>>
    /\ (Filtered \/ Selected) =>
         /\ significant_options = <<>>
         /\ options_df[1].open_interest # Null
              => oi_quantile = QuantileDen * options_df[1].open_interest
         /\ options_df[1].volume # Null
              => volume_quantile = QuantileDen * options_df[1].volume

\* the selection has run on a single complete record and returned nothing
C6_Witness ==
  /\ Selected
  /\ Len(options_df) = 1
  /\ ~HasMissingField(options_df[1])
  /\ top_strikes = <<>>

(* C7: a record with a missing required field (strike, open interest or     *)
(* volume) never contributes to the result: no strike of the result is the  *)
(* strike of such a record that passed the filter, and none is missing.     *)
(* Stated for the tables in which every column holds a value.               *)
C7_MissingFieldsDropped ==
  (/\ Selected
   /\ Present(StrikeCol(options_df)) # {}
   /\ Present(OpenInterestCol(options_df)) # {}
   /\ Present(VolumeCol(options_df)) # {}) =>
    \A i \in 1..Len(top_strikes) :
      /\ top_strikes[i] # Null
      /\ ~\E n \in RetainedRows :
            /\ HasMissingField(options_df[n])
            /\ options_df[n].strike = top_strikes[i]

(* C8: the open-interest threshold and the volume threshold are each the    *)
(* 0.80-quantile of their own column over the whole table, interpolated     *)
(* linearly between the two nearest ranks; open interest [10,10,10,10,100]  *)
(* gives 28.  Read where the filter leaves them, before the grouping.       *)
C8_QuantileInterpolation ==
  pc = "aggregate" =>
    /\ Present(OpenInterestCol(options_df)) # {}
         => oi_quantile = Interpolated(OpenInterestCol(options_df))
    /\ Present(VolumeCol(options_df)) # {}
         => volume_quantile = Interpolated(VolumeCol(options_df))
    /\ OpenInterestCol(options_df) = <<100, 10, 10, 10, 10>>
         => oi_quantile = QuantileDen * 28

\* the table of the example has been filtered, with a threshold strictly
\* between two of its values
C8_Witness ==
  /\ pc = "aggregate"
  /\ OpenInterestCol(options_df) = <<100, 10, 10, 10, 10>>
  /\ oi_quantile = QuantileDen * 28
  /\ volume_quantile = QuantileDen * 5

(* C9: whatever the fetches return, the script runs from the first fetch to *)
(* the last chart without an unhandled exception.                           *)
C9_NoUnhandledException == exception = "none"

(* C10: fetch_options_data skips an expiration whose request fails or whose *)
(* response has no options.option payload, without an error; the rows it    *)
(* returns are tagged with the expirations requested and follow their       *)
(* order; no rows at all give the empty table.                              *)
C10_FetchOptionsData ==
  /\ pc = "fetch_options_data" => exception = "none"
  /\ (pc = "report_options") =>
       /\ \A i \in 1..Len(options_df) :
            \E k \in 1..Len(selected_expirations) :
              options_df[i].expiration = selected_expirations[k]
       /\ \A i, j \in 1..Len(options_df) :
            i < j =>
              \E k, l \in 1..Len(selected_expirations) :
                /\ k <= l
                /\ options_df[i].expiration = selected_expirations[k]
                /\ options_df[j].expiration = selected_expirations[l]

=============================================================================
